---- MODULE Spec2Model ----
(***************************************************************************)
(* Model of gerber2ems' configuration loader (src/src/gerber2ems/config.py *)
(* and its earlier form src/script/config.py): the field resolver get, the *)
(* entity parsers, the layer classification and the Config singleton.      *)
(*                                                                         *)
(* JSON values are records [type, val]; type is the Python runtime type.   *)
(* A str's val is the tuple of its characters, a float's val is its value  *)
(* in units of 1/FloatDenom, a dict's val is a function on its keys, a     *)
(* list's val is a sequence.                                               *)
(***************************************************************************)
EXTENDS Integers, Sequences, FiniteSets, TLC

VARIABLES
    input,      \* the pending or latest call: its function and arguments
    result,     \* what that call produced: outcome, value, diagnostics logged
    pc,         \* "call" while the call of input is pending, "done" after
    instance,   \* Config._instance: <<>> for None, <<cfg>> once constructed
    process,    \* [alive, status]: whether the process runs, its exit status
    fs          \* the working directories on disk

vars == <<input, result, pc, instance, process, fs>>

-----------------------------------------------------------------------------
(* JSON / Python values *)

FloatDenom == 2

IntV(n) == [type |-> "int", val |-> n]
FloatV(h) == [type |-> "float", val |-> h]
StrV(s) == [type |-> "str", val |-> s]
BoolV(b) == [type |-> "bool", val |-> b]
DictV(f) == [type |-> "dict", val |-> f]
ListV(s) == [type |-> "list", val |-> s]
None == [type |-> "NoneType", val |-> 0]

\* A whole number written as a float literal (1e5, 500e3).
Whole(n) == FloatV(n * FloatDenom)

\* Path segments: a mapping key or a sequence index.
Key(k) == [key |-> k]
Idx(i) == [idx |-> i]
IsKey(name) == "key" \in DOMAIN name
IsIdx(name) == "idx" \in DOMAIN name

-----------------------------------------------------------------------------
(* get: the field resolver *)

\* A type test that understands a single type only, not a tuple of types.
isinstance_single_type(value, kind) ==
    Cardinality(kind) = 1 /\ value.type \in kind

\* isinstance(config, kind) with kind a type or a tuple of types, given as the
\* set of their names. bool is a subclass of int in Python.
isinstance(value, kind) ==
    \/ value.type \in kind
    \/ value.type = "bool" /\ "int" \in kind

Returned(value, warnings) ==
    [outcome |-> "return", value |-> value, status |-> 0,
     warning |-> warnings, error |-> 0]

\* logger.error(...) followed by sys.exit(status)
Exited(status, warnings) ==
    [outcome |-> "exit", value |-> None, status |-> status,
     warning |-> warnings, error |-> 1]

\* An uncaught exception: the interpreter ends the process with status 1 and
\* no diagnostic goes through the logger.
Raised(warnings) ==
    [outcome |-> "raise", value |-> None, status |-> 1,
     warning |-> warnings, error |-> 0]

\* `default is None`
default_is_None(default) == default.type = "NoneType"

RECURSIVE get_walk(_, _, _, _, _)
get_walk(config, path, i, kind, default) ==
    IF i > Len(path)
    THEN IF isinstance(config, kind) THEN Returned(config, 0)
         ELSE IF default_is_None(default) THEN Exited(1, 0)
         ELSE Returned(default, 1)
    ELSE LET name == path[i] IN
         IF config.type = "dict" /\ IsKey(name) /\ name.key \in DOMAIN config.val
         THEN get_walk(config.val[name.key], path, i + 1, kind, default)
         ELSE IF IsIdx(name) /\ config.type = "list" /\ name.idx < Len(config.val)
         THEN get_walk(config.val[name.idx + 1], path, i + 1, kind, default)
         ELSE IF default_is_None(default) THEN Exited(1, 0)
         ELSE Returned(default, 1)

get(config, path, kind, default) == get_walk(config, path, 1, kind, default)

-----------------------------------------------------------------------------
(* Python str and int operations the loader uses *)

DigitChars == <<"0", "1", "2", "3", "4", "5", "6", "7", "8", "9">>

\* ord(c) for the characters of a version string or a formatted integer.
Ord(c) ==
    IF c = "-" THEN 45
    ELSE IF c = "." THEN 46
    ELSE 47 + (CHOOSE i \in 1..10 : DigitChars[i] = c)

\* a < b on str: by code point, a proper prefix being smaller.
RECURSIVE StrLess(_, _)
StrLess(a, b) ==
    IF b = <<>> THEN FALSE
    ELSE IF a = <<>> THEN TRUE
    ELSE IF Head(a) # Head(b) THEN Ord(Head(a)) < Ord(Head(b))
    ELSE StrLess(Tail(a), Tail(b))

\* The position of the first sep in s, 0 when there is none.
RECURSIVE FindChar(_, _, _)
FindChar(s, sep, i) ==
    IF i > Len(s) THEN 0
    ELSE IF s[i] = sep THEN i
    ELSE FindChar(s, sep, i + 1)

\* s.split(sep, maxsplit=1)
SplitOnce(s, sep) ==
    LET i == FindChar(s, sep, 1) IN
    IF i = 0 THEN <<s>>
    ELSE <<SubSeq(s, 1, i - 1), SubSeq(s, i + 1, Len(s))>>

\* s.split(sep)
RECURSIVE Split(_, _)
Split(s, sep) ==
    LET i == FindChar(s, sep, 1) IN
    IF i = 0 THEN <<s>>
    ELSE <<SubSeq(s, 1, i - 1)>> \o Split(SubSeq(s, i + 1, Len(s)), sep)

\* s.replace(old, new) for single characters
Replace(s, old, new) == [i \in 1..Len(s) |-> IF s[i] = old THEN new ELSE s[i]]

\* str(n) of a non-negative int
RECURSIVE NatToStr(_)
NatToStr(n) ==
    IF n < 10 THEN <<DigitChars[n + 1]>>
    ELSE NatToStr(n \div 10) \o <<DigitChars[(n % 10) + 1]>>

\* str(n) of an int
IntToStr(n) == IF n < 0 THEN <<"-">> \o NatToStr(-n) ELSE NatToStr(n)

\* The number a value counts as in a comparison: True is 1, False is 0.
Num(v) == IF v.type = "bool" THEN (IF v.val THEN 1 ELSE 0) ELSE v.val

\* The text an f-string renders for a value returned by get(..., int).
Fmt(v) ==
    IF v.type = "bool"
    THEN (IF v.val THEN <<"T", "r", "u", "e">> ELSE <<"F", "a", "l", "s", "e">>)
    ELSE IntToStr(v.val)

\* int(x) of a number: a float is truncated toward zero.
int(v) ==
    IF v.type = "float"
    THEN (IF v.val < 0 THEN -((-v.val) \div FloatDenom) ELSE v.val \div FloatDenom)
    ELSE Num(v)

\* float(x) of a number
float(v) == IF v.type = "float" THEN v ELSE FloatV(Num(v) * FloatDenom)

-----------------------------------------------------------------------------
(* The version gate of Config.__init__ *)

\* The supported document format. gerber2ems/constants.py is not among the
\* files; the value is the one the specification's example names.
CONFIG_FORMAT_VERSION == <<"2", ".", "0">>

\* The condition of lines 189-193 and its branch: logger.error and
\* sys.exit() with no argument, which exits with status 0.
version_gate(version, supported) ==
    IF Split(version, ".")[1] # SplitOnce(supported, ".")[1]
    THEN Exited(0, 0)
    ELSE IF Len(Split(version, ".")) < 2 \/ Len(SplitOnce(supported, ".")) < 2
    THEN Raised(0)
    ELSE IF StrLess(Split(version, ".")[2], SplitOnce(supported, ".")[2])
    THEN Exited(0, 0)
    ELSE Returned(None, 0)

-----------------------------------------------------------------------------
(* Statements run in order: the first one that ends the process stops the rest *)

\* The index of the first result of rs that is not a return, 0 if none.
RECURSIVE FirstFailure(_, _)
FirstFailure(rs, i) ==
    IF i > Len(rs) THEN 0
    ELSE IF rs[i].outcome # "return" THEN i
    ELSE FirstFailure(rs, i + 1)

\* The warnings logged by the first n statements of rs.
RECURSIVE Warnings(_, _)
Warnings(rs, n) == IF n = 0 THEN 0 ELSE Warnings(rs, n - 1) + rs[n].warning

\* The statements rs ran in order and, when all returned, produced obj after
\* logging extra further warnings.
InOrder(rs, obj, extra) ==
    LET f == FirstFailure(rs, 1) IN
    IF f = 0 THEN Returned(obj, Warnings(rs, Len(rs)) + extra)
    ELSE [rs[f] EXCEPT !.warning = Warnings(rs, f)]

Values(rs) == [i \in 1..Len(rs) |-> rs[i].value]

-----------------------------------------------------------------------------
(* Entity parsers *)

Unnamed == <<"U", "n", "n", "a", "m", "e", "d">>

PortConfig(config) ==
    LET name == get(config, <<Key("name")>>, {"str"}, StrV(Unnamed))
        width == get(config, <<Key("width")>>, {"float", "int"}, None)
        length == get(config, <<Key("length")>>, {"float", "int"}, IntV(1000))
        impedance == get(config, <<Key("impedance")>>, {"float", "int"}, IntV(50))
        layer == get(config, <<Key("layer")>>, {"int"}, None)
        plane == get(config, <<Key("plane")>>, {"int"}, None)
        dB_margin == get(config, <<Key("dB_margin")>>, {"float", "int"}, IntV(-15))
        excite == get(config, <<Key("excite")>>, {"bool"}, BoolV(FALSE))
    IN InOrder(<<name, width, length, impedance, layer, plane, dB_margin, excite>>,
               [name |-> name.value, position |-> None, direction |-> None,
                width |-> width.value, length |-> length.value,
                impedance |-> impedance.value, layer |-> layer.value,
                plane |-> plane.value, dB_margin |-> dB_margin.value,
                excite |-> excite.value],
               0)

\* The bounds test written with > in place of >=.
not_existing_strict(index, port_count) == Num(index) > port_count

\* `index >= port_count`: the entity refers to a port that does not exist.
not_existing(index, port_count) == Num(index) >= port_count

\* The number of the indices of a sequence that refer to no existing port:
\* one warning is logged for each.
RECURSIVE CountNotExisting(_, _)
CountNotExisting(indices, port_count) ==
    IF indices = <<>> THEN 0
    ELSE (IF not_existing(Head(indices), port_count) THEN 1 ELSE 0)
         + CountNotExisting(Tail(indices), port_count)

DifferentialPairConfig(config, port_count) ==
    LET start_p == get(config, <<Key("start_p")>>, {"int"}, None)
        stop_p == get(config, <<Key("stop_p")>>, {"int"}, None)
        start_n == get(config, <<Key("start_n")>>, {"int"}, None)
        stop_n == get(config, <<Key("stop_n")>>, {"int"}, None)
        name == get(config, <<Key("name")>>, {"str"},
                    StrV(Fmt(start_p.value) \o Fmt(stop_p.value)
                         \o Fmt(start_n.value) \o Fmt(stop_n.value)))
        roles == <<start_p.value, stop_p.value, start_n.value, stop_n.value>>
    IN InOrder(<<start_p, stop_p, start_n, stop_n, name>>,
               [start_p |-> start_p.value, stop_p |-> stop_p.value,
                start_n |-> start_n.value, stop_n |-> stop_n.value,
                name |-> name.value,
                correct |-> ~(\/ not_existing(start_p.value, port_count)
                              \/ not_existing(stop_p.value, port_count)
                              \/ not_existing(start_n.value, port_count)
                              \/ not_existing(stop_n.value, port_count))],
               CountNotExisting(roles, port_count))

TraceConfig(config, port_count) ==
    LET start == get(config, <<Key("start")>>, {"int"}, None)
        stop == get(config, <<Key("stop")>>, {"int"}, None)
        name == get(config, <<Key("name")>>, {"str"},
                    StrV(Fmt(start.value) \o Fmt(stop.value)))
    IN InOrder(<<start, stop, name>>,
               [start |-> start.value, stop |-> stop.value, name |-> name.value,
                correct |-> ~(\/ not_existing(start.value, port_count)
                              \/ not_existing(stop.value, port_count))],
               CountNotExisting(<<start.value, stop.value>>, port_count))

\* LayerKind
LayerKind_SUBSTRATE == "SUBSTRATE"
LayerKind_METAL == "METAL"
LayerKind_OTHER == "OTHER"

\* A classification that does not know "prepreg".
parse_kind_core_only(kind) ==
    IF kind = <<"c", "o", "r", "e">> THEN LayerKind_SUBSTRATE
    ELSE IF kind = <<"c", "o", "p", "p", "e", "r">> THEN LayerKind_METAL
    ELSE LayerKind_OTHER

\* LayerConfig.parse_kind; kind is the type string as a Python str.
parse_kind(kind) ==
    IF kind \in {<<"c", "o", "r", "e">>, <<"p", "r", "e", "p", "r", "e", "g">>}
    THEN LayerKind_SUBSTRATE
    ELSE IF kind = <<"c", "o", "p", "p", "e", "r">> THEN LayerKind_METAL
    ELSE LayerKind_OTHER

\* config["thickness"] / 1000 / UNIT. UNIT is set in gerber2ems/constants.py,
\* which is not among the files: the quotient is kept as the number it scales.
Scaled(v) == [type |-> "float", scaled |-> v]

\* LayerConfig.__init__; config is a layer object of a stackup document, with
\* the keys the constructor subscripts.
LayerConfig(config) ==
    LET kind == parse_kind(config.val.type.val)
        thickness == IF config.val.thickness.type # "NoneType"
                     THEN Scaled(config.val.thickness) ELSE IntV(0)
    IN IF kind = LayerKind_METAL
       THEN [kind |-> kind, thickness |-> thickness,
             file |-> StrV(Replace(config.val.name.val, ".", "_"))]
       ELSE IF kind = LayerKind_SUBSTRATE
       THEN [kind |-> kind, thickness |-> thickness, epsilon |-> config.val.epsilon]
       ELSE [kind |-> kind, thickness |-> thickness]

-----------------------------------------------------------------------------
(* Config *)

\* int(get(json, path, kind, default)), float(get(...)): the conversion runs
\* only when get returned.
Converted(r, conv) ==
    IF r.outcome # "return" THEN r
    ELSE [r EXCEPT !.value = IF conv = "int" THEN IntV(int(r.value)) ELSE float(r.value)]

\* The elements a `for` loop visits in the list that get returned.
Elements(list) == IF list.outcome = "return" THEN list.value.val ELSE <<>>

\* The entities appended, in order, by the loop over a list that get
\* returned; rs are the results of the entity constructor on its elements.
Entities(list, rs) ==
    IF list.outcome # "return" THEN list ELSE InOrder(rs, Values(rs), 0)

\* Config.__init__ on a class whose _instance is None: the result of the
\* parse, its value being the object that becomes Config._instance.
Config_parse(json, args) ==
    LET num == {"float", "int"}
        version == get(json, <<Key("format_version")>>, {"str"}, None)
        gate == IF version.outcome # "return" THEN version
                ELSE version_gate(version.value.val, CONFIG_FORMAT_VERSION)
        start_frequency ==
            Converted(get(json, <<Key("frequency"), Key("start")>>, num, Whole(500000)), "int")
        stop_frequency ==
            Converted(get(json, <<Key("frequency"), Key("stop")>>, num, Whole(10000000)), "int")
        max_steps == Converted(get(json, <<Key("max_steps")>>, num, None), "int")
        pcb_mesh_xy == Converted(get(json, <<Key("mesh"), Key("xy")>>, num, IntV(50)), "int")
        inter_copper_layers ==
            Converted(get(json, <<Key("mesh"), Key("inter_layers")>>, {"int"}, IntV(5)), "int")
        margin_xy == Converted(get(json, <<Key("margin"), Key("xy")>>, num, IntV(3000)), "int")
        margin_z == Converted(get(json, <<Key("margin"), Key("z")>>, num, IntV(3000)), "int")
        margin_mesh_xy ==
            Converted(get(json, <<Key("mesh"), Key("margin"), Key("xy")>>, num, IntV(200)), "int")
        margin_mesh_z ==
            Converted(get(json, <<Key("mesh"), Key("margin"), Key("z")>>, num, IntV(200)), "int")
        via_plating ==
            Converted(get(json, <<Key("via"), Key("plating_thickness")>>, num, IntV(50)), "int")
        via_filling_epsilon ==
            Converted(get(json, <<Key("via"), Key("filling_epsilon")>>, num, IntV(1)), "float")
        ports_list == get(json, <<Key("ports")>>, {"list"}, None)
        ports == Entities(ports_list,
                          [i \in 1..Len(Elements(ports_list)) |->
                              PortConfig(Elements(ports_list)[i])])
        port_count == IF ports.outcome = "return" THEN Len(ports.value) ELSE 0
        diff_pairs_list == get(json, <<Key("differential_pairs")>>, {"list"}, ListV(<<>>))
        diff_pairs == Entities(diff_pairs_list,
                               [i \in 1..Len(Elements(diff_pairs_list)) |->
                                   DifferentialPairConfig(Elements(diff_pairs_list)[i],
                                                          port_count)])
        traces_list == get(json, <<Key("traces")>>, {"list"}, ListV(<<>>))
        traces == Entities(traces_list,
                           [i \in 1..Len(Elements(traces_list)) |->
                               TraceConfig(Elements(traces_list)[i], port_count)])
    IN InOrder(<<version, gate, start_frequency, stop_frequency, max_steps,
                 pcb_mesh_xy, inter_copper_layers, margin_xy, margin_z,
                 margin_mesh_xy, margin_mesh_z, via_plating, via_filling_epsilon,
                 ports_list, ports, diff_pairs_list, diff_pairs, traces_list, traces>>,
               [start_frequency |-> start_frequency.value.val,
                stop_frequency |-> stop_frequency.value.val,
                max_steps |-> max_steps.value.val,
                pcb_width |-> None,
                pcb_height |-> None,
                pcb_mesh_xy |-> pcb_mesh_xy.value.val,
                inter_copper_layers |-> inter_copper_layers.value.val,
                margin_xy |-> margin_xy.value.val,
                margin_z |-> margin_z.value.val,
                margin_mesh_xy |-> margin_mesh_xy.value.val,
                margin_mesh_z |-> margin_mesh_z.value.val,
                via_plating |-> via_plating.value.val,
                via_filling_epsilon |-> via_filling_epsilon.value,
                arguments |-> args,
                base_dir |-> "BASE_DIR",
                geometry_dir |-> "GEOMETRY_DIR",
                results_dir |-> "RESULTS_DIR",
                simulation_dir |-> "SIMULATION_DIR",
                fab_dir |-> "fab",
                ports |-> ports.value,
                diff_pairs |-> diff_pairs.value,
                traces |-> traces.value,
                layers |-> <<>>],
               0)

\* Config.get
Config_get(inst) == IF inst # <<>> THEN Returned(inst[1], 0) ELSE Exited(1, 0)

\* The layers load_stackup keeps: every layer of the stackup is parsed, the
\* METAL and SUBSTRATE ones are retained.
load_stackup_layers(stackup) ==
    LET layers == [i \in 1..Len(stackup.val.layers.val) |->
                      LayerConfig(stackup.val.layers.val[i])]
    IN SelectSeq(layers, LAMBDA layer :
                     layer.kind \in {LayerKind_METAL, LayerKind_SUBSTRATE})

\* get_substrates with the filter of get_metals.
get_substrates_copied_filter(config) ==
    SelectSeq(config.layers, LAMBDA layer : layer.kind = LayerKind_METAL)

get_substrates(config) ==
    SelectSeq(config.layers, LAMBDA layer : layer.kind = LayerKind_SUBSTRATE)

get_metals(config) ==
    SelectSeq(config.layers, LAMBDA layer : layer.kind = LayerKind_METAL)

\* create_dir on one directory: an existing one is removed first when cleanup
\* is asked for, and the directory is made when it does not exist.
create_dir(state, cleanup) ==
    IF cleanup \/ state = "absent" THEN "empty" ELSE state

-----------------------------------------------------------------------------
(* State shared by every specification *)

Running == [alive |-> TRUE, status |-> 0]
DirNames == {"BASE_DIR", "GEOMETRY_DIR", "RESULTS_DIR", "SIMULATION_DIR"}

IdleState ==
    /\ instance = <<>>
    /\ process = Running
    /\ fs = [d \in DirNames |-> "absent"]

\* What a call that produced r leaves behind: r itself and, when it ended
\* the process, the exit status.
Outcome(r) ==
    /\ result' = r
    /\ process' = IF r.outcome = "return" THEN process
                  ELSE [alive |-> FALSE, status |-> r.status]

-----------------------------------------------------------------------------
(* Spec: one process constructing, retrieving and completing its Config *)

MaxDocPorts == 1
MaxLayers == 2

\* The port object of the specification's end-to-end example.
ExamplePort == DictV([width |-> IntV(300), layer |-> IntV(0), plane |-> IntV(1)])

PairObject(a, b, c, d, name) ==
    DictV([start_p |-> IntV(a), stop_p |-> IntV(b),
           start_n |-> IntV(c), stop_n |-> IntV(d)] @@ name)

TraceObject(a, b, name) == DictV([start |-> IntV(a), stop |-> IntV(b)] @@ name)

\* A primary document; each of max_steps, ports, pairs and traces is a
\* function giving the key its value, or <<>> for a document without the key.
Document(version, max_steps, ports, pairs, traces) ==
    DictV([format_version |-> StrV(version),
           frequency |-> DictV([start |-> Whole(100000), stop |-> Whole(5000000)])]
          @@ max_steps @@ ports @@ pairs @@ traces)

ExampleDocument ==
    Document(<<"2", ".", "1">>, <<>>,
             [ports |-> ListV(<<ExamplePort>>)],
             [differential_pairs |-> ListV(<<PairObject(0, 5, 0, 0, <<>>)>>)],
             <<>>)

PortLists == {[ports |-> ListV([i \in 1..n |-> ExamplePort])] : n \in 0..MaxDocPorts}

PairLists ==
    {<<>>}
    \cup {[differential_pairs |-> ListV(<<PairObject(0, b, 0, 0, <<>>)>>)] :
             b \in {0, 5}}

TraceLists ==
    {<<>>}
    \cup {[traces |-> ListV(<<TraceObject(a, 0, [name |-> StrV(<<"t">>)])>>)] :
             a \in {-1, MaxDocPorts}}

\* Documents that carry every mandatory field in a supported format.
CompleteDocuments ==
    {Document(<<"2", ".", "1">>, [max_steps |-> IntV(100)], p, d, t) :
        p \in PortLists, d \in PairLists, t \in TraceLists}

\* Documents with one defect each (or, for the example, without max_steps).
DefectiveDocuments ==
    {ExampleDocument,
     Document(<<"1", ".", "1">>, [max_steps |-> IntV(100)],
              [ports |-> ListV(<<ExamplePort>>)], <<>>, <<>>),
     Document(<<"2", ".", "1">>, [max_steps |-> StrV(<<"1", "0", "0">>)],
              [ports |-> ListV(<<ExamplePort>>)], <<>>, <<>>),
     Document(<<"2", ".", "1">>, [max_steps |-> IntV(100)], <<>>, <<>>, <<>>),
     Document(<<"2", ".", "1">>, [max_steps |-> IntV(100)],
              [ports |-> ListV(<<DictV([layer |-> IntV(0), plane |-> IntV(1)])>>)],
              <<>>, <<>>),
     DictV([frequency |-> DictV([start |-> Whole(100000)])])}

Documents == CompleteDocuments \cup DefectiveDocuments

\* Invocation options: at most one of the phase flags set.
Arguments ==
    {a \in [geometry : BOOLEAN, postprocess : BOOLEAN, simulate : BOOLEAN, all : BOOLEAN] :
        Cardinality({f \in DOMAIN a : a[f]}) <= 1}

\* Layer objects of a stackup document, one per layer type.
StackupLayers ==
    {DictV([type |-> StrV(<<"c", "o", "r", "e">>), thickness |-> FloatV(1),
            epsilon |-> FloatV(9)]),
     DictV([type |-> StrV(<<"p", "r", "e", "p", "r", "e", "g">>), thickness |-> None,
            epsilon |-> IntV(4)]),
     DictV([type |-> StrV(<<"c", "o", "p", "p", "e", "r">>), thickness |-> IntV(1),
            name |-> StrV(<<"F", ".", "C", "u">>)]),
     DictV([type |-> StrV(<<"m", "a", "s", "k">>), thickness |-> IntV(1),
            name |-> StrV(<<"F", ".", "M">>)])}

Stackups ==
    {DictV([layers |-> ListV(ls)]) :
        ls \in UNION {[1..n -> StackupLayers] : n \in 0..MaxLayers}}

Init ==
    /\ instance = <<>>
    /\ process = Running
    /\ fs = [d \in DirNames |-> "stale"]
    /\ pc = "done"
    /\ input = [fn |-> "start"]
    /\ result = Returned(None, 0)

\* Config(json, args) while Config._instance is None: the document is parsed
\* and, unless the parse ends the process, the object becomes the instance.
Config_first ==
    /\ process.alive
    /\ instance = <<>>
    /\ \E json \in Documents, args \in Arguments :
        LET r == Config_parse(json, args) IN
        /\ input' = [fn |-> "Config", json |-> json, args |-> args]
        /\ Outcome(r)
        /\ instance' = IF r.outcome = "return" THEN <<r.value>> ELSE instance
    /\ UNCHANGED <<pc, fs>>

\* Config(json, args) without the guard on Config._instance: every
\* construction parses its document and stores its object.
Config_again_reparse ==
    /\ process.alive
    /\ instance # <<>>
    /\ \E json \in Documents, args \in Arguments :
        LET r == Config_parse(json, args) IN
        /\ input' = [fn |-> "Config"]
        /\ Outcome(r)
        /\ instance' = IF r.outcome = "return" THEN <<r.value>> ELSE instance
    /\ UNCHANGED <<pc, fs>>

\* Config(json, args) while an instance exists: a warning, and the return
\* before json or args is read (the caller gets a fresh, empty object).
Config_again ==
    /\ process.alive
    /\ instance # <<>>
    /\ input' = [fn |-> "Config"]
    /\ Outcome(Returned(None, 1))
    /\ UNCHANGED <<pc, instance, fs>>

\* Config.get()
Config_get_call ==
    /\ process.alive
    /\ input' = [fn |-> "Config.get"]
    /\ Outcome(Config_get(instance))
    /\ UNCHANGED <<pc, instance, fs>>

\* Config.get().create_default_directories()
create_default_directories ==
    /\ process.alive
    /\ instance # <<>>
    /\ LET a == instance[1].arguments IN
       fs' = [fs EXCEPT
                !["BASE_DIR"] = create_dir(@, FALSE),
                !["GEOMETRY_DIR"] =
                    IF a.geometry \/ a.all THEN create_dir(@, TRUE) ELSE @,
                !["RESULTS_DIR"] =
                    IF a.postprocess \/ a.all THEN create_dir(@, TRUE) ELSE @,
                !["SIMULATION_DIR"] =
                    IF a.simulate \/ a.all THEN create_dir(@, TRUE) ELSE @]
    /\ input' = [fn |-> "create_default_directories"]
    /\ Outcome(Returned(None, 0))
    /\ UNCHANGED <<pc, instance>>

\* Config.get().load_stackup(stackup)
load_stackup ==
    /\ process.alive
    /\ instance # <<>>
    /\ \E stackup \in Stackups :
        /\ input' = [fn |-> "load_stackup", stackup |-> stackup]
        /\ instance' = <<[instance[1] EXCEPT !.layers = load_stackup_layers(stackup)]>>
    /\ Outcome(Returned(None, 0))
    /\ UNCHANGED <<pc, fs>>

\* Config.get().get_substrates()
get_substrates_call ==
    /\ process.alive
    /\ instance # <<>>
    /\ input' = [fn |-> "get_substrates"]
    /\ Outcome(Returned(get_substrates(instance[1]), 0))
    /\ UNCHANGED <<pc, instance, fs>>

\* Config.get().get_metals()
get_metals_call ==
    /\ process.alive
    /\ instance # <<>>
    /\ input' = [fn |-> "get_metals"]
    /\ Outcome(Returned(get_metals(instance[1]), 0))
    /\ UNCHANGED <<pc, instance, fs>>

Next ==
    \/ Config_first
    \/ Config_again
    \/ Config_get_call
    \/ create_default_directories
    \/ load_stackup
    \/ get_substrates_call
    \/ get_metals_call

Spec == Init /\ [][Next]_vars

\* The call made last was a construction that parsed its document.
Parsed == input.fn = "Config" /\ "json" \in DOMAIN input

\* C4: every fatal validation failure (a logged error followed by the end of
\* the process) leaves a non-zero exit status and no constructed instance.
C4_FatalFailureExitsNonZero ==
    (~process.alive /\ result.outcome = "exit")
        => /\ result.error >= 1
           /\ process.status # 0
           /\ instance = <<>>

\* C5: constructing Config from the end-to-end example document completes and
\* yields start_frequency 100000, one port named "Unnamed" of length 1000 and
\* impedance 50, and one differential pair that is not correct.
C5_ExampleDocumentConstructs ==
    (Parsed /\ input.json = ExampleDocument)
        => /\ process.alive
           /\ result.outcome = "return"
           /\ instance # <<>>
           /\ instance[1].start_frequency = 100000
           /\ Len(instance[1].ports) = 1
           /\ instance[1].ports[1].name = StrV(Unnamed)
           /\ instance[1].ports[1].length = IntV(1000)
           /\ instance[1].ports[1].impedance = IntV(50)
           /\ Len(instance[1].diff_pairs) = 1
           /\ ~instance[1].diff_pairs[1].correct

\* Whether index is a valid index into a list of port_count ports.
ValidPortIndex(index, port_count) == 0 <= index.val /\ index.val < port_count

\* C7: in a constructed configuration, a differential pair or trace is correct
\* exactly when every port index it references is within 0 .. number of
\* ports - 1.
C7_CorrectIffAllIndicesValid ==
    instance # <<>>
        => LET c == instance[1]
               n == Len(c.ports)
           IN /\ \A i \in 1..Len(c.diff_pairs) :
                    c.diff_pairs[i].correct
                        <=> /\ ValidPortIndex(c.diff_pairs[i].start_p, n)
                            /\ ValidPortIndex(c.diff_pairs[i].stop_p, n)
                            /\ ValidPortIndex(c.diff_pairs[i].start_n, n)
                            /\ ValidPortIndex(c.diff_pairs[i].stop_n, n)
              /\ \A i \in 1..Len(c.traces) :
                    c.traces[i].correct
                        <=> /\ ValidPortIndex(c.traces[i].start, n)
                            /\ ValidPortIndex(c.traces[i].stop, n)

\* C8: Config.get() ends the process exactly when no construction has
\* completed and otherwise returns the stored instance and leaves it as it
\* is; a construction completes exactly when it stores its object; a further
\* construction attempt logs one warning and leaves the stored instance, with
\* all its fields, as it is.
C8_SingletonKeptAcrossConstructions ==
    [][/\ input'.fn = "Config.get"
            => /\ ~process'.alive <=> instance = <<>>
               /\ instance # <<>>
                    => result'.outcome = "return" /\ result'.value = instance[1]
               /\ instance' = instance
       /\ (input'.fn = "Config" /\ instance = <<>>)
            => /\ instance' # <<>> <=> result'.outcome = "return"
               /\ instance' # <<>> => instance'[1] = result'.value
               /\ process'.alive <=> result'.outcome = "return"
       /\ (input'.fn = "Config" /\ instance # <<>>)
            => /\ instance' = instance
               /\ process'.alive
               /\ result'.outcome = "return"
               /\ result'.warning = 1 /\ result'.error = 0]_vars

\* C8 witness: a construction was attempted while an instance parsed from a
\* document with ports and a differential pair was stored; it logged one
\* warning and the instance is still there.
C8_Witness ==
    /\ input.fn = "Config" /\ ~Parsed
    /\ instance # <<>>
    /\ Len(instance[1].ports) = 1
    /\ Len(instance[1].diff_pairs) = 1
    /\ result.warning = 1
    /\ process.alive

\* The i-th smallest element of a set of numbers.
Nth(S, i) == CHOOSE x \in S : Cardinality({y \in S : y <= x}) = i

\* sel holds exactly the elements of layers of kind k, in their order.
IsSelection(sel, layers, k) ==
    LET at == {i \in 1..Len(layers) : layers[i].kind = k} IN
    /\ Len(sel) = Cardinality(at)
    /\ \A j \in 1..Len(sel) : sel[j] = layers[Nth(at, j)]

\* C9: get_substrates() returns exactly the SUBSTRATE layers of the current
\* layer list and get_metals() exactly the METAL ones, in the list's order;
\* no result holds an OTHER layer, the two selections share no layer, and
\* the call leaves the instance (its layer list included) unchanged.
C9_AccessorsSelectByKindInOrder ==
    [][/\ input'.fn = "get_substrates"
            => /\ IsSelection(result'.value, instance[1].layers, LayerKind_SUBSTRATE)
               /\ \A j \in 1..Len(result'.value) :
                    /\ result'.value[j].kind # LayerKind_OTHER
                    /\ \A m \in 1..Len(get_metals(instance[1])) :
                         result'.value[j] # get_metals(instance[1])[m]
               /\ instance' = instance
       /\ input'.fn = "get_metals"
            => /\ IsSelection(result'.value, instance[1].layers, LayerKind_METAL)
               /\ \A j \in 1..Len(result'.value) :
                    result'.value[j].kind # LayerKind_OTHER
               /\ instance' = instance]_vars

\* C9 witness: get_substrates() returned some but not all layers of a
\* loaded stackup.
C9_Witness ==
    /\ input.fn = "get_substrates"
    /\ Len(result.value) >= 1
    /\ Len(instance[1].layers) > Len(result.value)

RecognizedTypes ==
    {<<"c", "o", "r", "e">>, <<"p", "r", "e", "p", "r", "e", "g">>,
     <<"c", "o", "p", "p", "e", "r">>}

\* The layer objects of a stackup's layer list whose type is recognized, in
\* stackup order.
RECURSIVE KeptLayers(_)
KeptLayers(ls) ==
    IF ls = <<>> THEN <<>>
    ELSE (IF Head(ls).val.type.val \in RecognizedTypes
          THEN <<LayerConfig(Head(ls))>> ELSE <<>>) \o KeptLayers(Tail(ls))

\* C10: a completed construction leaves the layer list empty; load_stackup
\* never ends the process and sets the list to the recognized layers of the
\* stackup it was given, in stackup order, whatever the list held before; no
\* other operation changes the list; the list never holds an OTHER layer.
C10_LayersAreLatestStackupFiltered ==
    [][/\ (input'.fn = "Config" /\ instance = <<>> /\ instance' # <<>>)
            => instance'[1].layers = <<>>
       /\ input'.fn = "load_stackup"
            => /\ process'.alive
               /\ instance'[1].layers = KeptLayers(input'.stackup.val.layers.val)
       /\ (input'.fn # "load_stackup" /\ instance # <<>>)
            => instance'[1].layers = instance[1].layers
       /\ instance' # <<>>
            => \A i \in 1..Len(instance'[1].layers) :
                  instance'[1].layers[i].kind # LayerKind_OTHER]_vars

\* C10 witness: a stackup with an unrecognized layer and a prepreg layer was
\* loaded after the directories had been created; the prepreg layer alone
\* was kept.
C10_Witness ==
    /\ input.fn = "load_stackup"
    /\ Len(input.stackup.val.layers.val) = 2
    /\ input.stackup.val.layers.val[1].val.type.val = <<"m", "a", "s", "k">>
    /\ Len(instance[1].layers) = 1
    /\ instance[1].layers[1].kind = LayerKind_SUBSTRATE
    /\ instance[1].layers[1].thickness = IntV(0)
    /\ fs["GEOMETRY_DIR"] = "empty"
    /\ process.alive

-----------------------------------------------------------------------------
(* SpecGet: get applied to bounded documents, paths, kinds and defaults *)

MaxPathLen == 3

GetLeaves == {IntV(7), FloatV(3), BoolV(TRUE), StrV(<<"x">>)}

GetDocs ==
    {DictV([a |-> x, b |-> ListV(<<y, DictV([a |-> x])>>)]) :
        x \in GetLeaves, y \in {IntV(0), StrV(<<>>)}}
    \cup {DictV([a |-> x]) : x \in GetLeaves}
    \cup {ListV(<<>>)}

GetSegments == {Key("a"), Key("b"), Idx(0), Idx(1), Idx(2)}

GetPaths == UNION {[1..n -> GetSegments] : n \in 0..MaxPathLen}

GetKinds == {{"int"}, {"float", "int"}, {"str"}, {"bool"}, {"list"}, {"dict"}}

\* None stands for a call that passes no default.
GetDefaults == {None, IntV(0), BoolV(FALSE), ListV(<<>>)}

InitGet ==
    /\ IdleState
    /\ pc = "call"
    /\ result = None
    /\ input \in [fn : {"get"}, config : GetDocs, path : GetPaths,
                   kind : GetKinds, default : GetDefaults]

CallGet ==
    /\ pc = "call"
    /\ process.alive
    /\ Outcome(get(input.config, input.path, input.kind, input.default))
    /\ pc' = "done"
    /\ UNCHANGED <<input, instance, fs>>

NextGet == CallGet

SpecGet == InitGet /\ [][NextGet]_vars

\* The value a path designates in a document, <<v>>, or <<>> when a segment
\* does not resolve (the reference the resolver's claims are stated against).
RECURSIVE Lookup(_, _)
Lookup(doc, path) ==
    IF path = <<>> THEN <<doc>>
    ELSE LET name == Head(path) IN
         IF IsKey(name)
         THEN IF doc.type = "dict" /\ name.key \in DOMAIN doc.val
              THEN Lookup(doc.val[name.key], Tail(path)) ELSE <<>>
         ELSE IF doc.type = "list" /\ name.idx >= 0 /\ name.idx < Len(doc.val)
              THEN Lookup(doc.val[name.idx + 1], Tail(path)) ELSE <<>>

GetDone == pc = "done" /\ input.fn = "get"

Present == Lookup(input.config, input.path) # <<>>

Found == Lookup(input.config, input.path)[1]

\* C1: when the path reaches a value whose runtime type is one of the expected
\* types, get returns exactly that value, with or without a default, logs
\* nothing and does not end the process.
C1_PresentTypedValueReturned ==
    (GetDone /\ Present /\ Found.type \in input.kind)
        => /\ result = Returned(Found, 0)
           /\ process.alive

\* C1 witness: a nested value (two or more segments, one of them an index) of
\* an expected type was returned although a default had been supplied.
C1_Witness ==
    /\ GetDone /\ Present /\ Found.type \in input.kind
    /\ Len(input.path) = MaxPathLen
    /\ Cardinality(input.kind) > 1
    /\ ~default_is_None(input.default)
    /\ result.outcome = "return"

\* C2: when the path is absent, or present with a value whose type is outside
\* the expected set, a call with a default returns the default and logs
\* exactly one warning, and a call without one ends the process with a fatal
\* diagnostic.
C2_AbsentOrMistypedDefaultOrAbort ==
    (GetDone /\ (~Present \/ Found.type \notin input.kind))
        => IF default_is_None(input.default)
           THEN /\ result.outcome = "exit"
                /\ result.error = 1
                /\ ~process.alive
           ELSE /\ result = Returned(input.default, 1)
                /\ process.alive

-----------------------------------------------------------------------------
(* SpecVersion: the version gate over bounded document and supported versions *)

MaxMajor == 2
MaxMinor == 10

VersionStr(major, minor) == IntToStr(major) \o <<".">> \o IntToStr(minor)

Versions == {VersionStr(a, b) : a \in 1..MaxMajor, b \in 0..MaxMinor}

InitVersion ==
    /\ IdleState
    /\ pc = "call"
    /\ result = None
    /\ input \in [fn : {"version_gate"}, version : Versions, supported : Versions]

CallVersionGate ==
    /\ pc = "call"
    /\ process.alive
    /\ Outcome(version_gate(input.version, input.supported))
    /\ pc' = "done"
    /\ UNCHANGED <<input, instance, fs>>

NextVersion == CallVersionGate

SpecVersion == InitVersion /\ [][NextVersion]_vars

\* The number a string of decimal digits denotes.
RECURSIVE StrToNat(_)
StrToNat(s) ==
    IF s = <<>> THEN 0
    ELSE 10 * StrToNat(SubSeq(s, 1, Len(s) - 1)) + (Ord(s[Len(s)]) - 48)

MajorOf(v) == StrToNat(Split(v, ".")[1])
MinorOf(v) == StrToNat(Split(v, ".")[2])

\* C3: the gate passes exactly when the document's major component equals the
\* supported one and its minor component is numerically at least the
\* supported minor component; otherwise construction aborts.
C3_GatePassesIffMajorEqualMinorAtLeast ==
    (pc = "done" /\ input.fn = "version_gate")
        => /\ result.outcome \in {"return", "exit"}
           /\ result.outcome = "return"
                <=> /\ MajorOf(input.version) = MajorOf(input.supported)
                    /\ MinorOf(input.version) >= MinorOf(input.supported)

-----------------------------------------------------------------------------
(* SpecEntity: the differential-pair and trace parsers over bounded objects *)

MaxPorts == 2

\* Port indices an entity may name: a negative one, the existing ones and
\* one past the last port of the largest port list.
PortIndices == -1..MaxPorts

\* The name field of an entity object: absent, a string, or not a string.
NameFields == {<<>>, [name |-> StrV(<<"d", "p">>)], [name |-> IntV(5)]}

PairObjects ==
    {PairObject(a, b, c, d, n) : a \in PortIndices, b \in PortIndices,
                                c \in PortIndices, d \in PortIndices, n \in NameFields}

TraceObjects == {TraceObject(a, b, n) : a \in PortIndices, b \in PortIndices, n \in NameFields}

InitEntity ==
    /\ IdleState
    /\ pc = "call"
    /\ result = None
    /\ \/ input \in [fn : {"DifferentialPairConfig"}, config : PairObjects,
                     port_count : 0..MaxPorts]
       \/ input \in [fn : {"TraceConfig"}, config : TraceObjects,
                     port_count : 0..MaxPorts]

CallDifferentialPairConfig ==
    /\ pc = "call"
    /\ process.alive
    /\ input.fn = "DifferentialPairConfig"
    /\ Outcome(DifferentialPairConfig(input.config, input.port_count))
    /\ pc' = "done"
    /\ UNCHANGED <<input, instance, fs>>

CallTraceConfig ==
    /\ pc = "call"
    /\ process.alive
    /\ input.fn = "TraceConfig"
    /\ Outcome(TraceConfig(input.config, input.port_count))
    /\ pc' = "done"
    /\ UNCHANGED <<input, instance, fs>>

NextEntity == CallDifferentialPairConfig \/ CallTraceConfig

SpecEntity == InitEntity /\ [][NextEntity]_vars

PairDone == pc = "done" /\ input.fn = "DifferentialPairConfig"

\* The four role indices of the pair object that was parsed.
PairRoles ==
    <<input.config.val.start_p.val, input.config.val.stop_p.val,
      input.config.val.start_n.val, input.config.val.stop_n.val>>

\* The number of roles whose index is >= the port count.
InvalidRoles == Cardinality({i \in 1..4 : PairRoles[i] >= input.port_count})

\* Whether the pair object carries a name that is a string.
HasStringName ==
    "name" \in DOMAIN input.config.val /\ input.config.val.name.type = "str"

\* C6 as stated: parsing a pair never aborts; with a role index >= N the pair
\* is not correct and the warnings logged equal the number of such roles;
\* with all four indices < N the pair is correct and nothing is logged.
C6_OneWarningPerInvalidRole ==
    PairDone
        => /\ result.outcome = "return"
           /\ process.alive
           /\ result.value.correct = (InvalidRoles = 0)
           /\ result.warning = InvalidRoles

\* C6 amended: as above, except that the warnings logged while parsing the
\* pair are one per role whose index is >= N plus one more when the object
\* has no string name field (get logs that it falls back to the synthesized
\* name).
C6_WarningsAreInvalidRolesPlusDefaultedName ==
    PairDone
        => /\ result.outcome = "return"
           /\ process.alive
           /\ result.value.correct = (InvalidRoles = 0)
           /\ result.warning = InvalidRoles + (IF HasStringName THEN 0 ELSE 1)

\* C6 witness: a named pair with exactly two out-of-range roles was parsed,
\* two warnings were logged and the pair is marked incorrect.
C6_Witness ==
    /\ PairDone
    /\ HasStringName
    /\ input.port_count > 0
    /\ InvalidRoles = 2
    /\ result.warning = 2
    /\ ~result.value.correct

====
